---- MODULE Spec2Model ----
(***************************************************************************)
(* Model of the OpsFlow auth-service scaffold:                             *)
(*   backend/logger_service/logger.py   ContextFilter, setup_logger        *)
(*   backend/auth_services/app/config/database_conn.py   retry loop        *)
(*   backend/auth_services/app/main.py  api_exception_handler, root        *)
(*   logger_service/metrics.py          IN_PROGRESS gauge                  *)
(*                                                                         *)
(* Two specifications: SpecBoot is the import of main.py (database_conn's  *)
(* setup_logger and retry loop, then main's own setup_logger); Spec is the *)
(* application serving requests after a successful import.                 *)
(***************************************************************************)
EXTENDS Integers, Sequences, FiniteSets, TLC

(* ---------------------------- bounds ----------------------------------- *)
MaxTasks == 2

(* ------------------------ program constants ---------------------------- *)
MAX_RETRIES == 3

(* Python's None; never a member of the bindable strings below. *)
None == "<None>"

Tasks == 1..MaxTasks

(* values request task t may bind: in request_id_ctx its own identifier,   *)
(* the empty string (an empty request-id header) or nothing (None); in     *)
(* client_ip_ctx its own address or nothing                                *)
RequestIdOf(t) == "req-" \o ToString(t)
ClientIpOf(t) == "10.0.0." \o ToString(t)
RequestIds(t) == {None, "", RequestIdOf(t)}
ClientIps(t) == {None, ClientIpOf(t)}

(* texts of psycopg2.OperationalError raised by psycopg2.connect *)
ConnectErrors == {"timeout", "connection refused"}

(* request paths: "/" is the root route of main.py, the other stands for a *)
(* route whose logic raises APIException                                   *)
Paths == {"/", "/login"}

LevelNo == [DEBUG |-> 10, INFO |-> 20, WARNING |-> 30, ERROR |-> 40, CRITICAL |-> 50]

VARIABLES
  bootpc,        \* position of the import of main.py
  attempt,       \* loop variable of the retry loop
  conn,          \* database_conn.conn
  bootExc,       \* APIException raised out of the retry loop, or NoExc
  connectCalls,  \* texts returned by each psycopg2.connect call so far ("ok" or the error)
  handlers,      \* handlers attached to logging.getLogger("app"), in order
  setupCalls,    \* number of completed setup_logger() calls
  nextUuid,      \* number of uuid.uuid4() values generated so far
  fileSink,      \* records written to logs/app.log
  consoleSink,   \* lines written to the console stream
  emitted,       \* log calls accepted by the logger, in call order
  pc,            \* per request task: position
  ctx,           \* per request task: bindings of request_id_ctx / client_ip_ctx
  path,          \* per request task: request.url.path
  exc,           \* per request task: the APIException being handled
  response,      \* per request task: the response produced
  IN_PROGRESS    \* value of the http_requests_in_progress gauge

vars == <<bootpc, attempt, conn, bootExc, connectCalls, handlers, setupCalls,
          nextUuid, fileSink, consoleSink, emitted, pc, ctx, path, exc,
          response, IN_PROGRESS>>

bootVars == <<bootpc, attempt, conn, bootExc, connectCalls>>
taskVars == <<pc, ctx, path, exc, response>>
sinkVars == <<nextUuid, fileSink, consoleSink, emitted>>

(* ------------------------- Python helpers ------------------------------ *)
Falsy == {None, ""}

(* a or b *)
Or(a, b) == IF a \in Falsy THEN b ELSE a

(* str(uuid.uuid4()): the n-th identifier generated by the process *)
Uuid(n) == "uuid-" \o ToString(n)

(* str() of a details dict with at most one string entry *)
DetailsRepr(d) ==
  IF d = {} THEN "{}"
  ELSE LET kv == CHOOSE p \in d : TRUE
       IN "{'" \o kv[1] \o "': '" \o kv[2] \o "'}"

(* APIException(message, status_code=500, details={}) *)
APIException(message, status_code, details) ==
  [message |-> message, status_code |-> status_code, details |-> details]

NoExc == [message |-> None, status_code |-> 0, details |-> {}]
NoResponse == [status_code |-> 0, content |-> [none |-> TRUE]]
NoContext == [request_id |-> None, client_ip |-> None]

(* ------------------------------ logger --------------------------------- *)

(* ContextFilter.filter without the default of client_ip *)
ContextFilter_filter_NoIpDefault(record, c, n) ==
  [record EXCEPT !.request_id = Or(c.request_id, Uuid(n + 1)),
                 !.client_ip = c.client_ip]

(* ContextFilter.filter: enrich the record from the calling task's context; *)
(* n uuid4 values have been generated before this call                      *)
ContextFilter_filter(record, c, n) ==
  [record EXCEPT !.request_id = Or(c.request_id, Uuid(n + 1)),
                 !.client_ip = Or(c.client_ip, "unknown")]

(* number of uuid4 values one filter call consumes *)
UuidsUsed(c) == IF c.request_id \in Falsy THEN 1 ELSE 0

(* setup_logger: a new file handler and a new console handler, each with a  *)
(* ContextFilter, are added to the 'app' logger                             *)
setup_logger(hs) == hs \o <<"file", "console">>

(* an emit whose failure propagates to the caller of the log call *)
Handler_emit_Raises(h, record, failing, st) ==
  IF h \in failing THEN [st EXCEPT !.raised = TRUE]
  ELSE [st EXCEPT ![h] = Append(@, record)]

(* Handler.handle after the filter: emit the record to the handler's sink;  *)
(* an emit that fails ends in Handler.handleError and does not raise        *)
Handler_emit(h, record, failing, st) ==
  IF h \in failing THEN st
  ELSE [st EXCEPT ![h] = Append(@, record)]

(* Logger.callHandlers: every handler in order filters, then emits *)
RECURSIVE callHandlers(_, _, _, _, _, _)
callHandlers(hs, i, record, c, failing, st) ==
  IF i > Len(hs) \/ st.raised THEN st
  ELSE LET enriched == ContextFilter_filter(record, c, st.uuid)
           st1 == [st EXCEPT !.uuid = @ + UuidsUsed(c)]
       IN callHandlers(hs, i + 1, record, c, failing,
                       Handler_emit(hs[i], enriched, failing, st1))

SinkState == [file |-> fileSink, console |-> consoleSink, uuid |-> nextUuid,
              emitted |-> emitted, raised |-> FALSE]

(* logger.log(level, message) by task t (0: module level code) whose context *)
(* is c; the logger's level is INFO                                          *)
Log(st, t, c, level, message, failing) ==
  IF st.raised \/ LevelNo[level] < LevelNo["INFO"] THEN st
  ELSE LET call == Len(st.emitted) + 1
           record == [call |-> call, task |-> t, level |-> level,
                      message |-> message, request_id |-> None,
                      client_ip |-> None]
           st1 == [st EXCEPT !.emitted = Append(@,
                      [call |-> call, task |-> t, level |-> level,
                       message |-> message, failing |-> failing])]
       IN callHandlers(handlers, 1, record, c, failing, st1)

Commit(st) ==
  /\ fileSink' = st.file
  /\ consoleSink' = st.console
  /\ nextUuid' = st.uuid
  /\ emitted' = st.emitted

FailureSets == SUBSET {"file", "console"}

(* ---------------------- import of main.py (SpecBoot) ------------------- *)

InitCommon ==
  /\ nextUuid = 0
  /\ fileSink = <<>>
  /\ consoleSink = <<>>
  /\ emitted = <<>>
  /\ pc = [t \in Tasks |-> "idle"]
  /\ ctx = [t \in Tasks |-> NoContext]
  /\ path = [t \in Tasks |-> None]
  /\ exc = [t \in Tasks |-> NoExc]
  /\ response = [t \in Tasks |-> NoResponse]
  /\ IN_PROGRESS = 0

InitBoot ==
  /\ bootpc = "import_database_conn"
  /\ attempt = 0
  /\ conn = None
  /\ bootExc = NoExc
  /\ connectCalls = <<>>
  /\ handlers = <<>>
  /\ setupCalls = 0
  /\ InitCommon

(* database_conn.py line 7: logger = setup_logger(); the loop starts *)
database_conn_setup_logger ==
  /\ bootpc = "import_database_conn"
  /\ handlers' = setup_logger(handlers)
  /\ setupCalls' = setupCalls + 1
  /\ attempt' = 1
  /\ bootpc' = "retry_loop"
  /\ UNCHANGED <<conn, bootExc, connectCalls, sinkVars, taskVars, IN_PROGRESS>>

(* the exception raised on exhaustion, carrying the first attempt's error *)
ExhaustedException_FirstError(e) ==
  APIException("Database connection error", 500, {<<"error", connectCalls[1]>>})

(* the exception raised when the last attempt failed with OperationalError(e) *)
ExhaustedException(e) ==
  APIException("Database connection error", 500, {<<"error", e>>})

(* a successful attempt that does not leave the loop *)
AfterConnect_NoBreak == "retry_loop"

(* break: a successful attempt ends the loop and the import goes on *)
AfterConnect == "import_main"

(* one iteration of the loop in which psycopg2.connect succeeds: the two   *)
(* info records are logged, conn is set and the loop is left by break      *)
connect_succeeds(failing) ==
  /\ bootpc = "retry_loop"
  /\ LET s1 == Log(SinkState, 0, NoContext, "INFO",
                   "Connecting to the database, attempt " \o ToString(attempt), failing)
         s2 == Log(s1, 0, NoContext, "INFO", "Database connection successful", failing)
     IN /\ Commit(s2)
        /\ connectCalls' = IF s1.raised THEN connectCalls ELSE Append(connectCalls, "ok")
        /\ conn' = IF s1.raised THEN conn ELSE "connection"
        /\ bootpc' = IF s2.raised THEN "crashed" ELSE AfterConnect
  /\ UNCHANGED <<attempt, bootExc, handlers, setupCalls, taskVars, IN_PROGRESS>>

(* one iteration of the loop in which psycopg2.connect raises              *)
(* OperationalError(e): a warning is logged; before the last attempt the   *)
(* loop sleeps and goes on, on the last attempt it logs an error and       *)
(* raises APIException with the text of e in details                       *)
connect_fails(e, failing) ==
  /\ bootpc = "retry_loop"
  /\ LET s1 == Log(SinkState, 0, NoContext, "INFO",
                   "Connecting to the database, attempt " \o ToString(attempt), failing)
         s2 == Log(s1, 0, NoContext, "WARNING",
                   "Database connection attempt " \o ToString(attempt) \o " failed: " \o e,
                   failing)
         s3 == Log(s2, 0, NoContext, "ERROR", "All database connection attempts failed",
                   failing)
     IN /\ connectCalls' = IF s1.raised THEN connectCalls ELSE Append(connectCalls, e)
        /\ IF attempt < MAX_RETRIES
           THEN /\ Commit(s2)
                /\ attempt' = IF s2.raised THEN attempt ELSE attempt + 1
                /\ bootpc' = IF s2.raised THEN "crashed" ELSE bootpc
                /\ UNCHANGED bootExc
           ELSE /\ Commit(s3)
                /\ bootExc' = IF s3.raised THEN bootExc
                              ELSE ExhaustedException(e)
                /\ bootpc' = IF s3.raised THEN "crashed" ELSE "raised"
                /\ UNCHANGED attempt
  /\ UNCHANGED <<conn, handlers, setupCalls, taskVars, IN_PROGRESS>>

(* main.py line 11: logger = setup_logger(), after database_conn is imported *)
main_setup_logger ==
  /\ bootpc = "import_main"
  /\ handlers' = setup_logger(handlers)
  /\ setupCalls' = setupCalls + 1
  /\ bootpc' = "serving"
  /\ UNCHANGED <<attempt, conn, bootExc, connectCalls, sinkVars, taskVars, IN_PROGRESS>>

NextBoot ==
  \/ database_conn_setup_logger
  \/ \E failing \in FailureSets : connect_succeeds(failing)
  \/ \E e \in ConnectErrors, failing \in FailureSets : connect_fails(e, failing)
  \/ main_setup_logger

SpecBoot == InitBoot /\ [][NextBoot]_vars

(* ------------------------ serving requests (Spec) ---------------------- *)

(* APIException values raised by request logic *)
APIErrors ==
  { APIException("Invalid credentials", 401, {}),
    APIException("Database connection error", 500, {<<"error", "timeout">>}) }

(* the process after main.py was imported with the database reachable at   *)
(* the first attempt; the sinks are observed from here on                  *)
Init ==
  /\ bootpc = "serving"
  /\ attempt = 1
  /\ conn = "connection"
  /\ bootExc = NoExc
  /\ connectCalls = <<"ok">>
  /\ handlers = setup_logger(setup_logger(<<>>))
  /\ setupCalls = 2
  /\ InitCommon

InFlight == {"entered", "running", "raised"}

(* a request arrives and runs as its own task with a fresh context; no     *)
(* code of main.py touches IN_PROGRESS                                     *)
request_entry(t, p) ==
  /\ bootpc = "serving"
  /\ pc[t] = "idle"
  /\ pc' = [pc EXCEPT ![t] = "entered"]
  /\ path' = [path EXCEPT ![t] = p]
  /\ ctx' = [ctx EXCEPT ![t] = NoContext]
  /\ UNCHANGED <<bootVars, handlers, setupCalls, sinkVars, exc, response, IN_PROGRESS>>

(* request_id_ctx.set / client_ip_ctx.set in task t (None: left unset) *)
bind_context(t, rid, ip) ==
  /\ pc[t] = "entered"
  /\ ctx' = [ctx EXCEPT ![t] = [request_id |-> rid, client_ip |-> ip]]
  /\ pc' = [pc EXCEPT ![t] = "running"]
  /\ UNCHANGED <<bootVars, handlers, setupCalls, sinkVars, path, exc, response, IN_PROGRESS>>

(* main.root: GET / returns the status payload *)
root(t) ==
  /\ pc[t] = "running"
  /\ path[t] = "/"
  /\ response' = [response EXCEPT ![t] =
        [status_code |-> 200, content |-> [status |-> "OpsFlow Auth Service Running"]]]
  /\ pc' = [pc EXCEPT ![t] = "done"]
  /\ ctx' = [ctx EXCEPT ![t] = NoContext]
  /\ UNCHANGED <<bootVars, handlers, setupCalls, sinkVars, path, exc, IN_PROGRESS>>

(* request logic of another route raises APIException; the framework will  *)
(* dispatch it to the handler registered by app.add_exception_handler      *)
raise_APIException(t, e) ==
  /\ pc[t] = "running"
  /\ path[t] # "/"
  /\ exc' = [exc EXCEPT ![t] = e]
  /\ pc' = [pc EXCEPT ![t] = "raised"]
  /\ UNCHANGED <<bootVars, handlers, setupCalls, sinkVars, ctx, path, response, IN_PROGRESS>>

(* the f-string of api_exception_handler *)
ErrorLine(e, p) ==
  "Error: " \o e.message \o " | Path: " \o p \o " | Details: " \o DetailsRepr(e.details)

(* a response that always answers 500 and leaks the exception text *)
JSONResponse_Leaky(e) ==
  [status_code |-> 500,
   content |-> [success |-> FALSE, message |-> e.message, details |-> e.details,
                traceback |-> "APIException: " \o e.message]]

(* JSONResponse(status_code=exc.status_code, content={...}) *)
JSONResponse(e) ==
  [status_code |-> e.status_code,
   content |-> [success |-> FALSE, message |-> e.message, details |-> e.details]]

(* the handler logging with logger.warning *)
HandlerLogLevel_Warning == "WARNING"

(* level of the record api_exception_handler logs (logger.error) *)
HandlerLogLevel == "ERROR"

(* a context kept in one module-level variable: a task reads the binding   *)
(* of another task when there is one                                       *)
CurrentContext_Global(t) ==
  IF \E u \in Tasks : u # t /\ ctx[u] # NoContext
  THEN ctx[CHOOSE u \in Tasks : u # t /\ ctx[u] # NoContext]
  ELSE ctx[t]

(* request_id_ctx.get() / client_ip_ctx.get(): the bindings of the calling *)
(* task's own context                                                      *)
CurrentContext(t) == ctx[t]

(* main.api_exception_handler: logger.error(...), then the JSON response *)
api_exception_handler(t, failing) ==
  /\ pc[t] = "raised"
  /\ LET st == Log(SinkState, t, CurrentContext(t), HandlerLogLevel,
                   ErrorLine(exc[t], path[t]), failing)
     IN /\ Commit(st)
        /\ IF st.raised
           THEN /\ pc' = [pc EXCEPT ![t] = "crashed"]
                /\ UNCHANGED response
           ELSE /\ pc' = [pc EXCEPT ![t] = "responded"]
                /\ response' = [response EXCEPT ![t] = JSONResponse(exc[t])]
  /\ UNCHANGED <<bootVars, handlers, setupCalls, ctx, path, exc, IN_PROGRESS>>

(* the request's task is cancelled at one of its suspension points *)
cancel(t) ==
  /\ pc[t] \in InFlight
  /\ pc' = [pc EXCEPT ![t] = "cancelled"]
  /\ ctx' = [ctx EXCEPT ![t] = NoContext]
  /\ exc' = [exc EXCEPT ![t] = NoExc]
  /\ UNCHANGED <<bootVars, handlers, setupCalls, sinkVars, path, response, IN_PROGRESS>>

Next ==
  \/ \E t \in Tasks, p \in Paths : request_entry(t, p)
  \/ \E t \in Tasks : \E rid \in RequestIds(t), ip \in ClientIps(t) : bind_context(t, rid, ip)
  \/ \E t \in Tasks : root(t)
  \/ \E t \in Tasks, e \in APIErrors : raise_APIException(t, e)
  \/ \E t \in Tasks, failing \in FailureSets : api_exception_handler(t, failing)
  \/ \E t \in Tasks : cancel(t)

Spec == Init /\ [][Next]_vars

(* ------------------------------ properties ----------------------------- *)

Range(seq) == {seq[i] : i \in DOMAIN seq}
SinkRecords == Range(fileSink) \cup Range(consoleSink)
Sink(k) == IF k = "file" THEN fileSink ELSE consoleSink
IsGenerated(x) == \E n \in 1..nextUuid : x = Uuid(n)
NumHandlers(k) == Cardinality({i \in DOMAIN handlers : handlers[i] = k})

C2_ExactlyOnceSinkSetup ==
  setupCalls >= 1 => (NumHandlers("file") = 1 /\ NumHandlers("console") = 1)

(* C3: the response of api_exception_handler has the exception's status    *)
(* code and a body of exactly success = false, message and details of the  *)
(* exception.                                                              *)
C3_ErrorToResponse ==
  \A t \in Tasks :
    pc[t] = "responded"
      => /\ response[t].status_code = exc[t].status_code
         /\ DOMAIN response[t].content = {"success", "message", "details"}
         /\ response[t].content.success = FALSE
         /\ response[t].content.message = exc[t].message
         /\ response[t].content.details = exc[t].details

(* a 401 exception with empty details has been mapped *)
C3_Witness ==
  \E t \in Tasks :
    /\ pc[t] = "responded"
    /\ exc[t].status_code = 401
    /\ response[t].status_code = 401
    /\ response[t].content.details = {}

AllFailed == \A i \in DOMAIN connectCalls : connectCalls[i] # "ok"

(* C4: when every connect attempt fails, the loop makes exactly            *)
(* MAX_RETRIES = 3 attempts and then raises an APIException with status    *)
(* 500 whose details carry the error text of the third attempt.            *)
C4_RetryExhaustion ==
  /\ Len(connectCalls) <= 3
  /\ (AllFailed /\ Len(connectCalls) = 3) => bootpc = "raised"
  /\ bootpc = "raised"
       => /\ AllFailed
          /\ Len(connectCalls) = 3
          /\ bootExc.status_code = 500
          /\ bootExc.message = "Database connection error"
          /\ bootExc.details = {<<"error", connectCalls[3]>>}
  /\ bootpc # "raised" => bootExc = NoExc

(* the loop is exhausted and the last error differs from the first two *)
C4_Witness ==
  /\ bootpc = "raised"
  /\ connectCalls[1] # connectCalls[3]
  /\ connectCalls[2] # connectCalls[3]

(* C5: a successful connect attempt is the last one made; after it the     *)
(* connection is established and no APIException is raised.                *)
C5_RetrySuccess ==
  \A i \in DOMAIN connectCalls :
    connectCalls[i] = "ok"
      => /\ i = Len(connectCalls)
         /\ i <= MAX_RETRIES
         /\ conn = "connection"
         /\ bootExc = NoExc
         /\ bootpc \in {"import_main", "serving"}

(* two failures, then success at the third attempt, and the import went on *)
C5_Witness ==
  /\ Len(connectCalls) = 3
  /\ connectCalls[1] # "ok" /\ connectCalls[2] # "ok" /\ connectCalls[3] = "ok"
  /\ bootpc = "serving"

(* C6: the IN_PROGRESS gauge equals the number of requests in flight.      *)
C6_GaugeTracksInFlight ==
  IN_PROGRESS = Cardinality({t \in Tasks : pc[t] \in InFlight})

(* C7: a log call whose write to a sink fails does not raise: the request  *)
(* that logged is answered with its JSON error response, and every sink    *)
(* that did not fail has the record of that call.                          *)
C7_SinkFailureContained ==
  \A i \in DOMAIN emitted :
    LET e == emitted[i] IN
      /\ e.task \in Tasks
           => /\ pc[e.task] = "responded"
              /\ response[e.task].status_code = exc[e.task].status_code
              /\ response[e.task].content.success = FALSE
      /\ \A k \in {"file", "console"} \ e.failing :
           \E rec \in Range(Sink(k)) : rec.call = e.call /\ rec.message = e.message

(* the file write of a handler's log call failed, the console has the      *)
(* record and the response was returned                                    *)
C7_Witness ==
  \E i \in DOMAIN emitted :
    /\ emitted[i].failing = {"file"}
    /\ emitted[i].task \in Tasks
    /\ pc[emitted[i].task] = "responded"
    /\ \E rec \in Range(consoleSink) : rec.call = emitted[i].call
    /\ \A rec \in Range(fileSink) : rec.call # emitted[i].call

(* C8: no error response exists without an ERROR record, logged by the     *)
(* same request, whose message holds the exception's message, the request  *)
(* path and the details.                                                   *)
C8_LogThenRespond ==
  \A t \in Tasks :
    (pc[t] = "responded" \/ "success" \in DOMAIN response[t].content)
      => \E i \in DOMAIN emitted :
           /\ emitted[i].task = t
           /\ emitted[i].level = "ERROR"
           /\ emitted[i].message =
                "Error: " \o exc[t].message \o " | Path: " \o path[t]
                  \o " | Details: " \o DetailsRepr(exc[t].details)

(* an exception with details was handled on /login *)
C8_Witness ==
  \E t \in Tasks :
    /\ pc[t] = "responded"
    /\ exc[t].details # {}
    /\ \E i \in DOMAIN emitted :
         emitted[i].message =
           "Error: Database connection error | Path: /login | Details: {'error': 'timeout'}"

C10_CrossSinkConsistency ==
  \A f \in Range(fileSink) : \A c \in Range(consoleSink) :
    f.call = c.call => (f.request_id = c.request_id /\ f.client_ip = c.client_ip)

====
